---- MODULE Spec2Model ----
(***************************************************************************)
(* A model of the Twitter follow bot of src/twitterBot.py: the four local  *)
(* relationship files, the policy filter (follow_user, unfollow_user), the *)
(* batch workflows built on them and the generator divide_chunks.  The     *)
(* last sections model the config-file variant of src/TwitterBot.py        *)
(* (bot_setup, follow_user, auto_unfollow_nonfollowers, sync_follows).     *)
(***************************************************************************)
EXTENDS Integers, Sequences, FiniteSets, TLC

VARIABLES
    followers_file,        \* lines of default_settings["followers_file"]
    follows_file,          \* lines of default_settings["follows_file"]
    already_followed_file, \* lines of default_settings["already_followed_file"]
    non_following_file,    \* lines of default_settings["non_following_file"] (the ignored set)
    pc,                    \* position of the process: the workflow it is in
    queue,                 \* user objects the running loop has still to visit
    args,                  \* arguments of the running workflow
    start,                 \* the sets a workflow read from the files when it started
    requests,              \* id lists of the lookup requests of the running workflow
    looked,                \* ids of the profiles the lookups of the running workflow returned
    calls,                 \* waits and remote mutations of the running workflow, in order
    decided,               \* policy decisions of the running workflow, in order
    workflow,              \* the method the process runs, or ran last
    ops,                   \* how many workflows the operator has started
    chunk_l, chunk_n,      \* divide_chunks: its arguments l and n
    chunks,                \* divide_chunks: the chunks it yielded
    report,                \* nuke_old_tweets: the "Number of deleted tweets" it logged, if any
    BOT_CONFIG,            \* src/TwitterBot.py: the configuration bot_setup has read
    twitter_con,           \* src/TwitterBot.py: the connection to the API, or None
    sync_files             \* src/TwitterBot.py: the sync files that exist on disk

vars == <<followers_file, follows_file, already_followed_file, non_following_file,
          pc, queue, args, start, requests, looked, calls, decided,
          workflow, ops, chunk_l, chunk_n, chunks, report,
          BOT_CONFIG, twitter_con, sync_files>>

files == <<followers_file, follows_file, already_followed_file, non_following_file>>
chunkVars == <<chunk_l, chunk_n, chunks>>
configVars == <<BOT_CONFIG, twitter_con, sync_files>>

\* src/twitterBot.py has none of the state of the config-file variant
Unconfigured ==
    /\ BOT_CONFIG = <<>>
    /\ twitter_con = "None"
    /\ sync_files = {}

----------------------------------------------------------------------------
(* Bounds of the model *)

\* user ids 1..MaxId are accounts whose profile the remote lookup can return
MaxId == 2
\* ids MaxId+1..MaxId+BlockSize are a block of further accounts a listing may hold
BlockSize == 101
\* longest list handed to divide_chunks
MaxLen == 200
\* workflows the operator starts, over all runs of the program
MaxOps == 2
\* posts a search returns to the program
MaxTweets == 1
\* rows of the archive handed to nuke_old_tweets
MaxRows == 2
\* posts of a search result when the candidates are built from it directly
MaxPosts == 3
\* ids on one page of a follower or following listing
PageSize == 1

(* Program constants *)

\* follow_user: n_followers = 100
N_FOLLOWERS == 100
\* follow_user: n_tweets = 100
N_TWEETS == 100
\* follow_user: followers_follow_ratio = (0.6, 1.4), in tenths
RATIO_LOW == 6
RATIO_HIGH == 14
\* the chunk size the workflows use
CHUNK == 99
\* the remote user lookup takes at most 100 ids in one request (the limit of the
\* service behind lookup_users, as the specification states it; no number of the program)
LOOKUP_LIMIT == 100
\* auto_follow_by_hashtag: friends_count = 300, count = 200
HASHTAG_FRIENDS == 300
HASHTAG_COUNT == 200

----------------------------------------------------------------------------
(* Text of the files: a line is the decimal string of an id *)

\* str(n) of a non-negative int: its decimal digits
RECURSIVE str(_)
str(k) == IF k < 10 THEN <<k>> ELSE Append(str(k \div 10), k % 10)

\* int(line) of a line of decimal digits
RECURSIVE int(_)
int(s) == IF Len(s) = 0 THEN 0
          ELSE 10 * int(SubSeq(s, 1, Len(s) - 1)) + s[Len(s)]

Range(s) == {s[k] : k \in DOMAIN s}

\* set(int(line) for line in in_file)
ReadIds(file) == {int(file[k]) : k \in DOMAIN file}

\* for x in ids: out_file.write(f"{x}\n"), on a file opened with "w"
WriteIds(ids) == [k \in DOMAIN ids |-> str(ids[k])]

\* the ids of S in lo..hi, in increasing order
RECURSIVE Ascending(_, _, _)
Ascending(S, lo, hi) ==
    IF lo > hi THEN <<>>
    ELSE IF lo = hi THEN (IF lo \in S THEN <<lo>> ELSE <<>>)
    ELSE LET mid == (lo + hi) \div 2
         IN  Ascending(S, lo, mid) \o Ascending(S, mid + 1, hi)

\* list(a_set) of a set of user ids: the ids in increasing order
SetToList(S) == Ascending(S, 1, MaxId + BlockSize)

----------------------------------------------------------------------------
(* Settings *)

\* ConfigSettings.default_settings: the keys are lower case
default_settings ==
    [k \in {"api_key", "api_secret", "access_token_key", "access_token_secret",
            "twitter_handle", "already_followed_file", "followers_file",
            "follows_file", "non_followers_file", "non_following_file"} |->
        IF k = "twitter_handle" THEN "bot" ELSE k]

\* dict.get(key): None when the key is absent
Get(d, key) == IF key \in DOMAIN d THEN d[key] ELSE "None"

----------------------------------------------------------------------------
(* Remote calls as they are logged *)

Wait == [op |-> "wait", id |-> 0, result |-> "ok"]
Call(op, id, result) == [op |-> op, id |-> id, result |-> result]

\* what a remote mutation can answer: success, an API error, the quota error
\* "You are unable to follow more people at this time."
ApiOutcomes == {"ok", "error", "quota"}

----------------------------------------------------------------------------
(* The policy filter *)

\* a variant of ignore_user_check that never finds the id
ignore_user_check_never(file, user_obj) == FALSE

\* ignore_user(user_obj, check_user=True)
ignore_user_check(file, user_obj) == str(user_obj.id) \in Range(file)

\* a variant of ignore_user that writes nothing
ignore_user_noop(file, user_obj) == file

\* a variant of ignore_user that opens the file with "w"
ignore_user_overwrite(file, user_obj) == <<str(user_obj.id)>>

\* ignore_user(user_obj): the file is opened with "a"
ignore_user(file, user_obj) == Append(file, str(user_obj.id))

\* a variant of InBand whose low end is exclusive
InBandStrict(user_obj, ratio) ==
    /\ ratio[1] * user_obj.friends_count < 10 * user_obj.followers_count
    /\ 10 * user_obj.followers_count <= ratio[2] * user_obj.friends_count

\* followers_follow_ratio[0] <= followers_count / friends_count <= followers_follow_ratio[1]
\* for friends_count > 0, the band given in tenths
InBand(user_obj, ratio) ==
    /\ ratio[1] * user_obj.friends_count <= 10 * user_obj.followers_count
    /\ 10 * user_obj.followers_count <= ratio[2] * user_obj.friends_count

\* a variant of unable_to_follow that takes every error for the quota error
unable_to_follow_any(error) == error # "ok"

\* "You are unable to follow more people at this time." in str(error)
unable_to_follow(error) == error = "quota"

\* a variant of follow_user that tests protected before the follower count
follow_user_protected_first(file, obj, n_followers, ratio, n_tweets, api) ==
    LET user_obj == IF "screen_name" \in DOMAIN obj THEN obj ELSE obj.user
        out(f, c, d, r) == [file |-> f, calls |-> c, decision |-> d, raised |-> r]
        skip(d) == out(ignore_user(file, user_obj), <<>>, d, FALSE)
        create == <<Wait, Call("create_friendship", user_obj.id, api)>>
    IN  IF \/ ignore_user_check(file, user_obj)
           \/ user_obj.screen_name = Get(default_settings, "TWITTER_HANDLE")
        THEN out(file, <<>>, "NONE", FALSE)
        ELSE IF user_obj.friends_count = 0
        THEN out(file, <<>>, "NONE", FALSE)
        ELSE IF ~InBand(user_obj, ratio) THEN skip("SKIP_RATIO")
        ELSE IF user_obj.protected THEN skip("SKIP_PROTECTED")
        ELSE IF user_obj.followers_count < n_followers THEN skip("SKIP_LOW_FOLLOWERS")
        ELSE IF user_obj.statuses_count < n_tweets THEN skip("SKIP_GHOST")
        ELSE IF user_obj.following THEN skip("SKIP_ALREADY_FOLLOWING")
        ELSE IF api = "ok" THEN out(file, create, "PROCEED", FALSE)
        ELSE out(ignore_user(file, user_obj), create, "PROCEED", api = "quota")

\* What one call of follow_user does: the ignored file afterwards, the waits and
\* remote calls it made, the branch it ended in, whether it raised RuntimeError.
\* api is the answer of create_friendship, should it be called.
follow_user(file, obj, n_followers, ratio, n_tweets, api) ==
    LET user_obj == IF "screen_name" \in DOMAIN obj THEN obj ELSE obj.user
        out(f, c, d, r) == [file |-> f, calls |-> c, decision |-> d, raised |-> r]
        skip(d) == out(ignore_user(file, user_obj), <<>>, d, FALSE)
        create == <<Wait, Call("create_friendship", user_obj.id, api)>>
    IN  IF \/ ignore_user_check(file, user_obj)
           \/ user_obj.screen_name = Get(default_settings, "TWITTER_HANDLE")
        THEN out(file, <<>>, "NONE", FALSE)
        ELSE IF user_obj.friends_count = 0
        THEN out(file, <<>>, "NONE", FALSE)
        ELSE IF ~InBand(user_obj, ratio) THEN skip("SKIP_RATIO")
        ELSE IF user_obj.followers_count < n_followers THEN skip("SKIP_LOW_FOLLOWERS")
        ELSE IF user_obj.statuses_count < n_tweets THEN skip("SKIP_GHOST")
        ELSE IF user_obj.protected THEN skip("SKIP_PROTECTED")
        ELSE IF user_obj.following THEN skip("SKIP_ALREADY_FOLLOWING")
        ELSE IF api = "ok" THEN out(file, create, "PROCEED", FALSE)
        ELSE out(ignore_user(file, user_obj), create, "PROCEED", unable_to_follow(api))

\* a variant of unfollow_user without the test of the verified flag
unfollow_user_any_verified(file, user_obj, unfollow_verified, unfollow_protected, api) ==
    LET out(f, c, d) == [file |-> f, calls |-> c, decision |-> d, raised |-> FALSE]
        skip(d) == out(ignore_user(file, user_obj), <<>>, d)
    IN  IF user_obj.protected # unfollow_protected THEN skip("SKIP_PROTECTED")
        ELSE IF ~user_obj.following THEN skip("SKIP_NOT_FOLLOWING")
        ELSE out(file, <<Wait, Call("destroy_friendship", user_obj.id, api)>>, "PROCEED")

\* What one call of unfollow_user does. api is the answer of destroy_friendship.
unfollow_user(file, user_obj, unfollow_verified, unfollow_protected, api) ==
    LET out(f, c, d) == [file |-> f, calls |-> c, decision |-> d, raised |-> FALSE]
        skip(d) == out(ignore_user(file, user_obj), <<>>, d)
    IN  IF user_obj.verified # unfollow_verified THEN skip("SKIP_VERIFIED_MISMATCH")
        ELSE IF user_obj.protected # unfollow_protected THEN skip("SKIP_PROTECTED")
        ELSE IF ~user_obj.following THEN skip("SKIP_NOT_FOLLOWING")
        ELSE out(file, <<Wait, Call("destroy_friendship", user_obj.id, api)>>, "PROCEED")

\* the entry the decision log keeps of one call
Decided(kind, file, obj, r) ==
    [kind |-> kind,
     user |-> IF "screen_name" \in DOMAIN obj THEN obj ELSE obj.user,
     ignored_before |-> ReadIds(file),
     ignored_after |-> ReadIds(r.file),
     decision |-> r.decision,
     calls |-> r.calls]

\* the arguments the workflows leave at their defaults
DefaultArgs ==
    [n_followers |-> N_FOLLOWERS, ratio |-> <<RATIO_LOW, RATIO_HIGH>>, n_tweets |-> N_TWEETS,
     unfollow_verified |-> FALSE, unfollow_protected |-> FALSE, auto_sync |-> FALSE]

\* self.follow_user(obj) on the head of the queue, in workflow `at`
HandToFollowUser(at) ==
    /\ \E api \in IF follow_user(non_following_file, Head(queue), args.n_followers,
                                  args.ratio, args.n_tweets, "ok").calls = <<>>
                   THEN {"ok"} ELSE ApiOutcomes :
         LET r == follow_user(non_following_file, Head(queue),
                              args.n_followers, args.ratio, args.n_tweets, api)
         IN  /\ non_following_file' = r.file
             /\ calls' = calls \o r.calls
             /\ decided' = Append(decided, Decided("follow", non_following_file, Head(queue), r))
             /\ pc' = IF r.raised THEN "crashed"
                      ELSE IF Tail(queue) = <<>> THEN "idle" ELSE at
    /\ queue' = Tail(queue)
    /\ UNCHANGED <<followers_file, follows_file, already_followed_file,
                   args, start, requests, looked, workflow, ops, chunkVars, configVars, report>>

\* for user_obj in ...: self.follow_user(user_obj)
FollowStep(at) ==
    /\ pc = at
    /\ queue # <<>>
    /\ HandToFollowUser(at)

\* self.unfollow_user(user_obj, unfollow_verified) on the head of the queue
UnfollowStep(at) ==
    /\ pc = at
    /\ queue # <<>>
    /\ \E api \in ApiOutcomes :
         LET r == unfollow_user(non_following_file, Head(queue),
                                args.unfollow_verified, args.unfollow_protected, api)
         IN  /\ non_following_file' = r.file
             /\ calls' = calls \o r.calls
             /\ decided' = Append(decided, Decided("unfollow", non_following_file, Head(queue), r))
             /\ pc' = IF Tail(queue) = <<>> THEN "idle" ELSE at
    /\ queue' = Tail(queue)
    /\ UNCHANGED <<followers_file, follows_file, already_followed_file,
                   args, start, requests, looked, workflow, ops, chunkVars, configVars, report>>

----------------------------------------------------------------------------
(* The policy filter called directly, twice on one profile *)

FollowersCounts == {0, 50, 59, 60, 100, 119, 120, 140, 141, 280, 281}
FriendsCounts == {0, 50, 100, 200}
StatusesCounts == {50, 100}
ScreenNames == {"alice", "bot"}

Users(ids) ==
    [id : ids, screen_name : ScreenNames, followers_count : FollowersCounts,
     friends_count : FriendsCounts, statuses_count : StatusesCounts,
     protected : BOOLEAN, following : BOOLEAN, verified : BOOLEAN]

\* the thresholds a caller may pass: the default band and one that holds 0
PolicyArgs ==
    {[DefaultArgs EXCEPT !.ratio = b, !.unfollow_verified = v] :
        b \in {<<RATIO_LOW, RATIO_HIGH>>, <<0, RATIO_HIGH>>}, v \in BOOLEAN}

NoStart == [followers |-> {}, following |-> {}, dnf |-> {}, not_following_back |-> <<>>]

InitPolicy ==
    /\ followers_file = <<>>
    /\ follows_file = <<>>
    /\ already_followed_file = <<>>
    /\ non_following_file \in {<<>>, <<str(1)>>, <<str(2)>>}
    /\ pc \in {"follow_user", "unfollow_user"}
    /\ \E u \in Users({1}) : queue = <<u, u>>
    /\ args \in PolicyArgs
    /\ start = NoStart
    /\ requests = <<>>
    /\ looked = {}
    /\ calls = <<>>
    /\ decided = <<>>
    /\ workflow = pc
    /\ ops = 1
    /\ chunk_l = <<>> /\ chunk_n = CHUNK /\ chunks = <<>>
    /\ report = <<>>
    /\ Unconfigured

FollowUserCall == FollowStep("follow_user")
UnfollowUserCall == UnfollowStep("unfollow_user")

NextPolicy == FollowUserCall \/ UnfollowUserCall

SpecPolicy == InitPolicy /\ [][NextPolicy]_vars

----------------------------------------------------------------------------
(* divide_chunks *)

\* list(range(a, b, step))
RECURSIVE range(_, _, _)
range(a, b, step) == IF a >= b THEN <<>> ELSE <<a>> \o range(a + step, b, step)

Min(a, b) == IF a <= b THEN a ELSE b

\* a variant of Slice that stops one element early
SliceShort(s, a, b) == SubSeq(s, a + 1, Min(b - 1, Len(s)))

\* s[a : b] for 0 <= a <= b
Slice(s, a, b) == SubSeq(s, a + 1, Min(b, Len(s)))

\* list(divide_chunks(l, n)): one l[i : i + n] for every i of range(0, len(l), n)
divide_chunks(list, size) ==
    LET at == range(0, Len(list), size)
    IN  [k \in DOMAIN at |-> Slice(list, at[k], at[k] + size)]


----------------------------------------------------------------------------
(* The remote side *)

Ids == 1..MaxId
Block == (MaxId + 1)..(MaxId + BlockSize)

\* what followers_ids() and friends_ids() can return: any of the accounts with a
\* profile, or all of them and the block
Listings == {SetToList(S) : S \in SUBSET Ids} \cup {SetToList(Ids \cup Block)}

\* the operator's own account
OwnId == 0
\* the screen name of an account
Names == <<"alice", "bob", "carol", "dave", "erin", "frank">>
ScreenName(id) ==
    IF id = OwnId THEN default_settings["twitter_handle"]
    ELSE IF id \in DOMAIN Names THEN Names[id] ELSE "someone"

\* the profiles users/lookup can hold of account id
Profile(id, name, followers, friends, statuses, protected, following, verified) ==
    [id |-> id, screen_name |-> name, followers_count |-> followers,
     friends_count |-> friends, statuses_count |-> statuses,
     protected |-> protected, following |-> following, verified |-> verified]

\* an account worth following, one already followed, a verified one already followed,
\* one that follows nobody
Profiles(id) ==
    {Profile(id, ScreenName(id), 100, 100, 100, FALSE, FALSE, FALSE),
     Profile(id, ScreenName(id), 100, 100, 100, FALSE, TRUE, FALSE),
     Profile(id, ScreenName(id), 100, 100, 100, FALSE, TRUE, TRUE),
     Profile(id, ScreenName(id), 100, 0, 100, FALSE, FALSE, FALSE)}

\* every way to answer the ids of a list, each with one of its profiles or with none
RECURSIVE Answers(_)
Answers(ids) ==
    IF ids = <<>> THEN {<<>>}
    ELSE LET rest == Answers(Tail(ids))
         IN  rest \cup {<<u>> \o r : u \in Profiles(Head(ids)), r \in rest}

IsAccount(id) == id \in Ids

\* a variant of LookupResults that answers every id twice
LookupResultsTwice(ids) == Answers(SelectSeq(ids \o ids, IsAccount))

\* what lookup_users(user_ids=ids) can return: a profile for each id that is still an
\* account, in the order asked; the accounts of the block are gone
LookupResults(ids) == Answers(SelectSeq(ids, IsAccount))

UserIds(users) == {users[k].id : k \in DOMAIN users}

----------------------------------------------------------------------------
(* The workflows *)

\* what a listing call can do: return ids, or raise
Returns(ids) == [raises |-> FALSE, ids |-> ids]
Raises == [raises |-> TRUE, ids |-> <<>>]

\* sync_follows, given what followers_ids() and friends_ids() do: the two files
\* afterwards, the waits made, whether it raised
sync_follows(followers_ids, followings_ids) ==
    IF followers_ids.raises
    THEN [followers |-> followers_file, follows |-> follows_file, calls |-> <<>>,
          raised |-> TRUE]
    ELSE IF followings_ids.raises
    THEN [followers |-> WriteIds(followers_ids.ids), follows |-> follows_file,
          calls |-> <<Wait>>, raised |-> TRUE]
    ELSE [followers |-> WriteIds(followers_ids.ids),
          follows |-> WriteIds(followings_ids.ids),
          calls |-> <<Wait>>, raised |-> FALSE]

\* the ways one run of sync_follows can be answered
SyncAnswers ==
    {<<Raises, Raises>>}
    \cup {<<Returns(fl), Raises>> : fl \in Listings}
    \cup {<<Returns(fl), Returns(fr)>> : fl \in Listings, fr \in Listings}

\* a sync that is not run
NoSync == [followers |-> followers_file, follows |-> follows_file, calls |-> <<>>,
           raised |-> FALSE]

\* get_do_not_follow_list()
get_do_not_follow_list == ReadIds(already_followed_file) \cup ReadIds(non_following_file)

\* the operator starts a workflow
Begin(name) ==
    /\ pc = "idle"
    /\ workflow = "none"
    /\ ops < MaxOps
    /\ ops' = ops + 1
    /\ workflow' = name

\* tweeter_bot.sync_follows()
SyncFollows ==
    /\ Begin("sync_follows")
    /\ \E answer \in SyncAnswers :
         LET r == sync_follows(answer[1], answer[2])
         IN  /\ followers_file' = r.followers
             /\ follows_file' = r.follows
             /\ calls' = r.calls
             /\ pc' = IF r.raised THEN "crashed" ELSE "idle"
    /\ queue' = <<>>
    /\ args' = DefaultArgs
    /\ start' = NoStart
    /\ requests' = <<>>
    /\ looked' = {}
    /\ decided' = <<>>
    /\ UNCHANGED <<already_followed_file, non_following_file, chunkVars, configVars, report>>

\* a variant of follow_back_candidates that forgets the exclusions
follow_back_candidates_all(followers, following, already_followed) ==
    SetToList(followers \ following)

\* list(followers - following - already_followed)
follow_back_candidates(followers, following, already_followed) ==
    SetToList((followers \ following) \ already_followed)

\* auto_follow_followers(auto_sync): if auto_sync: self.sync_follows()
AutoFollowFollowers ==
    /\ Begin("auto_follow_followers")
    /\ \E auto_sync \in BOOLEAN :
       \E answer \in IF auto_sync THEN SyncAnswers ELSE {<<Raises, Raises>>} :
         LET s == IF auto_sync THEN sync_follows(answer[1], answer[2]) ELSE NoSync
         IN  /\ args' = [DefaultArgs EXCEPT !.auto_sync = auto_sync]
             /\ followers_file' = s.followers
             /\ follows_file' = s.follows
             /\ calls' = s.calls
             /\ pc' = IF s.raised THEN "crashed" ELSE "reconcile_followers"
    /\ queue' = <<>>
    /\ start' = NoStart
    /\ requests' = <<>>
    /\ looked' = {}
    /\ decided' = <<>>
    /\ UNCHANGED <<already_followed_file, non_following_file, chunkVars, configVars, report>>

\* auto_follow_followers from its reads of the files to the lookup
ReconcileFollowers ==
    /\ pc = "reconcile_followers"
    /\ LET following == ReadIds(follows_file)
           followers == ReadIds(followers_file)
           already_followed == get_do_not_follow_list
           not_following_back == follow_back_candidates(followers, following, already_followed)
       IN  /\ start' = [followers |-> followers, following |-> following,
                        dnf |-> already_followed, not_following_back |-> not_following_back]
           /\ IF not_following_back = <<>>
              THEN /\ pc' = "idle"
                   /\ requests' = <<>> /\ looked' = {} /\ queue' = <<>>
              ELSE /\ requests' = <<not_following_back>>
                   /\ \/ /\ pc' = "crashed"
                         /\ looked' = {} /\ queue' = <<>>
                      \/ /\ Len(not_following_back) <= LOOKUP_LIMIT
                         /\ \E users \in LookupResults(not_following_back) :
                              /\ queue' = users
                              /\ looked' = UserIds(users)
                              /\ pc' = IF users = <<>> THEN "idle" ELSE "follow_back"
    /\ UNCHANGED <<files, args, calls, decided, workflow, ops, chunkVars, configVars, report>>

\* the loop of auto_follow_followers
FollowBack == FollowStep("follow_back")

\* a variant of unfollow_candidates that forgets the followers
unfollow_candidates_all(following, followers, already_followed_list) ==
    SetToList(following \ already_followed_list)

\* list(following - followers - already_followed_list)
unfollow_candidates(following, followers, already_followed_list) ==
    SetToList((following \ followers) \ already_followed_list)

\* the lookups of [self.username_lookup(i) for i in non_followers]: every way the
\* chunks can be answered, in order, until one request raises
RECURSIVE LookupAll(_)
LookupAll(cs) ==
    IF cs = <<>> THEN {[requests |-> <<>>, users |-> <<>>, raised |-> FALSE]}
    ELSE {[requests |-> <<Head(cs)>>, users |-> <<>>, raised |-> TRUE]}
         \cup {[requests |-> <<Head(cs)>> \o t.requests, users |-> u \o t.users,
                raised |-> t.raised] :
                  u \in LookupResults(Head(cs)), t \in LookupAll(Tail(cs))}

\* auto_unfollow_nonfollowers(auto_sync, unfollow_verified), up to its loop
AutoUnfollowNonfollowers ==
    /\ Begin("auto_unfollow_nonfollowers")
    /\ \E auto_sync \in BOOLEAN, unfollow_verified \in BOOLEAN :
         LET following == ReadIds(follows_file)
             followers == ReadIds(followers_file)
             already_followed_list == get_do_not_follow_list
             not_following_back == unfollow_candidates(following, followers, already_followed_list)
             read == [followers |-> followers, following |-> following,
                      dnf |-> already_followed_list, not_following_back |-> not_following_back]
         IN  /\ args' = [DefaultArgs EXCEPT !.auto_sync = auto_sync,
                                            !.unfollow_verified = unfollow_verified]
             /\ start' = read
             /\ calls' = <<>>
             /\ decided' = <<>>
             /\ IF not_following_back = <<>>
                THEN /\ pc' = "idle"
                     /\ requests' = <<>> /\ looked' = {} /\ queue' = <<>>
                     /\ UNCHANGED already_followed_file
                ELSE /\ already_followed_file' = WriteIds(not_following_back)
                     /\ \E t \in LookupAll(divide_chunks(not_following_back, CHUNK)) :
                          /\ requests' = t.requests
                          /\ looked' = IF t.raised THEN {} ELSE UserIds(t.users)
                          /\ queue' = IF t.raised THEN <<>> ELSE t.users
                          /\ pc' = IF t.raised THEN "crashed"
                                   ELSE IF t.users = <<>> THEN "idle" ELSE "unfollow"
    /\ UNCHANGED <<followers_file, follows_file, non_following_file, chunkVars, configVars, report>>

\* the loop of auto_unfollow_nonfollowers
Unfollow == UnfollowStep("unfollow")

----------------------------------------------------------------------------
(* auto_follow_by_hashtag *)

\* the author of a post, as the search returns it
Author(id, followers, friends, statuses, protected, following, image) ==
    [id |-> id, screen_name |-> ScreenName(id), followers_count |-> followers,
     friends_count |-> friends, statuses_count |-> statuses, protected |-> protected,
     following |-> following, verified |-> FALSE, profile_image_url |-> image]

\* the accounts that post under the phrase: account 1 passes the filter and the policy,
\* account 2 passes the filter and has too many followers for its friends; either may
\* also be seen with too few friends for the filter
Posters == {1, 2}
Authors(id) ==
    {Author(id, IF id = 1 THEN 400 ELSE 1000, 400, 300, FALSE, FALSE, TRUE),
     Author(id, 400, 100, 300, FALSE, FALSE, TRUE)}

\* the posts a search can return: post t was created at time t and has id t (post ids
\* and user ids are numbers of two separate series); the requester may have posted too
Tweets(bound) ==
    {[id |-> t, created_at |-> t, user |-> u] :
        t \in 1..bound,
        u \in UNION {Authors(id) : id \in Posters}
                 \cup {Author(OwnId, 400, 400, 300, FALSE, FALSE, TRUE)}}

\* what search(q=phrase, ...) can return: up to bound distinct posts in any order
SearchResults(bound) ==
    UNION {{r \in [1..len -> Tweets(bound)] :
                \A j, k \in 1..len : j # k => r[j].created_at # r[k].created_at} :
           len \in 0..bound}

\* a variant of DictValues that puts a name where its last post is
RECURSIVE DictValuesByLast(_, _)
DictValuesByLast(results, k) ==
    IF k > Len(results) THEN <<>>
    ELSE IF \E j \in DOMAIN results :
                j > k /\ results[j].user.screen_name = results[k].user.screen_name
    THEN DictValuesByLast(results, k + 1)
    ELSE <<results[k]>> \o DictValuesByLast(results, k + 1)

\* list(users_dict.values()) after users_dict[result.user.screen_name] = result for every
\* result: one post for each screen name, in the order the names first came up, each
\* name with the last post under it
RECURSIVE DictValues(_, _)
DictValues(results, k) ==
    IF k > Len(results) THEN <<>>
    ELSE LET name == results[k].user.screen_name
             same == {j \in DOMAIN results : results[j].user.screen_name = name}
             last == CHOOSE j \in same : \A m \in same : m <= j
         IN  IF \E j \in same : j < k
             THEN DictValues(results, k + 1)
             ELSE <<results[last]>> \o DictValues(results, k + 1)

\* the condition of the list comprehension that builds statuses
Wanted(tweet) ==
    /\ tweet.user.screen_name # Get(default_settings, "TWITTER_HANDLE")
    /\ ~tweet.user.protected
    /\ ~tweet.user.following
    /\ tweet.user.profile_image_url
    /\ tweet.user.friends_count > HASHTAG_FRIENDS
    /\ tweet.user.statuses_count > HASHTAG_COUNT

\* statuses = [i for i in users_dict.values() if ...]
statuses(results) == SelectSeq(DictValues(results, 1), Wanted)

\* auto_follow_by_hashtag(phrase, auto_sync=auto_sync): if auto_sync: self.sync_follows()
AutoFollowByHashtag ==
    /\ Begin("auto_follow_by_hashtag")
    /\ \E auto_sync \in BOOLEAN :
       \E answer \in IF auto_sync THEN SyncAnswers ELSE {<<Raises, Raises>>} :
         LET s == IF auto_sync THEN sync_follows(answer[1], answer[2]) ELSE NoSync
         IN  /\ args' = [DefaultArgs EXCEPT !.auto_sync = auto_sync]
             /\ followers_file' = s.followers
             /\ follows_file' = s.follows
             /\ calls' = s.calls
             /\ pc' = IF s.raised THEN "crashed" ELSE "search"
    /\ queue' = <<>>
    /\ start' = NoStart
    /\ requests' = <<>>
    /\ looked' = {}
    /\ decided' = <<>>
    /\ UNCHANGED <<already_followed_file, non_following_file, chunkVars, configVars, report>>

\* auto_follow_by_hashtag from the search to the list of statuses; the search can raise
SearchTweets(bound) ==
    /\ pc = "search"
    /\ \/ /\ pc' = "crashed"
          /\ queue' = <<>>
       \/ \E results \in SearchResults(bound) :
            /\ queue' = statuses(results)
            /\ pc' = IF statuses(results) = <<>> THEN "idle" ELSE "hashtag"
    /\ UNCHANGED <<files, args, start, requests, looked, calls, decided, workflow, ops,
                   chunkVars, configVars, report>>

\* for tweet in statuses: if not self.ignore_user(tweet, check_user=True):
\*     self.follow_user(tweet)
FollowAuthor ==
    /\ pc = "hashtag"
    /\ queue # <<>>
    /\ IF ignore_user_check(non_following_file, Head(queue))
       THEN /\ queue' = Tail(queue)
            /\ pc' = IF Tail(queue) = <<>> THEN "idle" ELSE "hashtag"
            /\ UNCHANGED <<files, args, start, requests, looked, calls, decided, workflow,
                           ops, chunkVars, configVars, report>>
       ELSE HandToFollowUser("hashtag")

----------------------------------------------------------------------------
(* nuke_old_tweets *)

Date(y, m, d) == [valid |-> TRUE, y |-> y, m |-> m, d |-> d]
\* a string that is no date
NoDate == [valid |-> FALSE, y |-> 0, m |-> 0, d |-> 0]

\* a variant of Earlier that lets the day of the cutoff through
EarlierOrSame(a, b) ==
    \/ a.y < b.y
    \/ a.y = b.y /\ a.m < b.m
    \/ a.y = b.y /\ a.m = b.m /\ a.d <= b.d

\* a < b for two dates
Earlier(a, b) ==
    \/ a.y < b.y
    \/ a.y = b.y /\ a.m < b.m
    \/ a.y = b.y /\ a.m = b.m /\ a.d < b.d

\* the timestamps of the rows of an archive, and the dates the operator may enter
Timestamps == {Date(2019, 5, 1), Date(2020, 1, 1), Date(2021, 1, 1), NoDate}
Cutoffs == {Date(2020, 1, 1), NoDate}

\* the archives: up to bound rows, row k with tweet_id k
Archives(bound) ==
    UNION {[1..len -> Timestamps] : len \in 0..bound}

\* the loop over the rows from row k on, given the answer of destroy_status for each call:
\* the waits and calls made, the tweets put in deleted_tweets, the value of count, and
\* whether parse() raised on a timestamp
RECURSIVE nuke_rows(_, _, _, _, _)
nuke_rows(rows, k, to_date, api, acc) ==
    IF k > Len(rows) THEN acc
    ELSE IF ~rows[k].valid
    THEN [acc EXCEPT !.raised = TRUE, !.count = k]
    ELSE IF Earlier(rows[k], to_date)
    THEN nuke_rows(rows, k + 1, to_date, api,
            [acc EXCEPT !.calls = @ \o <<Wait, Call("destroy_status", k, api[k])>>,
                        !.deleted = IF api[k] = "ok" THEN Append(@, k) ELSE @,
                        !.count = k])
    ELSE nuke_rows(rows, k + 1, to_date, api, [acc EXCEPT !.count = k])

\* nuke_old_tweets(to_date, tweets_csv_file); readable is whether the file can be opened
NukeOldTweets(bound) ==
    /\ Begin("nuke_old_tweets")
    /\ \E to_date \in Cutoffs, readable \in BOOLEAN :
         IF ~to_date.valid \/ ~readable
         THEN /\ start' = [to_date |-> to_date, readable |-> readable, rows |-> <<>>]
              /\ calls' = <<>>
              /\ report' = <<>>
              /\ pc' = "idle"
         ELSE \E rows \in Archives(bound) :
              \E api \in [{k \in DOMAIN rows : rows[k].valid /\ Earlier(rows[k], to_date)}
                            -> ApiOutcomes] :
                LET r == nuke_rows(rows, 1, to_date, api,
                                   [calls |-> <<>>, deleted |-> <<>>, count |-> 0,
                                    raised |-> FALSE])
                IN  /\ start' = [to_date |-> to_date, readable |-> readable, rows |-> rows]
                    /\ calls' = r.calls
                    /\ report' = IF ~r.raised /\ r.deleted # <<>> THEN <<r.count>> ELSE <<>>
                    /\ pc' = IF r.raised THEN "crashed" ELSE "idle"
    /\ queue' = <<>>
    /\ args' = DefaultArgs
    /\ requests' = <<>>
    /\ looked' = {}
    /\ decided' = <<>>
    /\ UNCHANGED <<files, chunkVars, configVars>>

----------------------------------------------------------------------------
(* send_tweet, send_tweet_with_image *)

\* the body of send_tweet and of send_tweet_with_image: the one remote call, made with no
\* wait before it, inside a try whose except only prints
Post(name, op) ==
    /\ Begin(name)
    /\ \E api \in ApiOutcomes : calls' = <<Call(op, OwnId, api)>>
    /\ pc' = "idle"
    /\ queue' = <<>>
    /\ args' = DefaultArgs
    /\ start' = NoStart
    /\ requests' = <<>>
    /\ looked' = {}
    /\ decided' = <<>>
    /\ UNCHANGED <<files, chunkVars, configVars, report>>

\* send_tweet(message)
SendTweet == Post("send_tweet", "update_status")

\* send_tweet_with_image(image_path, message)
SendTweetWithImage == Post("send_tweet_with_image", "update_with_media")

----------------------------------------------------------------------------
(* The program *)

\* the workflow has returned, or the exception has ended the process: nothing is left of
\* the run but the files, and the operator may start the next workflow
Return ==
    /\ pc \in {"idle", "crashed"}
    /\ workflow # "none"
    /\ pc' = "idle"
    /\ workflow' = "none"
    /\ queue' = <<>>
    /\ args' = DefaultArgs
    /\ start' = NoStart
    /\ requests' = <<>>
    /\ looked' = {}
    /\ calls' = <<>>
    /\ decided' = <<>>
    /\ report' = <<>>
    /\ UNCHANGED <<files, ops, chunkVars, configVars>>

Init ==
    /\ followers_file = <<>>
    /\ follows_file = <<>>
    /\ already_followed_file = <<>>
    /\ non_following_file = <<>>
    /\ pc = "idle"
    /\ queue = <<>>
    /\ args = DefaultArgs
    /\ start = NoStart
    /\ requests = <<>>
    /\ looked = {}
    /\ calls = <<>>
    /\ decided = <<>>
    /\ workflow = "none"
    /\ ops = 0
    /\ chunk_l = <<>> /\ chunk_n = CHUNK /\ chunks = <<>>
    /\ report = <<>>
    /\ Unconfigured

Next ==
    \/ SyncFollows
    \/ AutoFollowFollowers
    \/ ReconcileFollowers
    \/ FollowBack
    \/ AutoUnfollowNonfollowers
    \/ Unfollow
    \/ AutoFollowByHashtag
    \/ SearchTweets(MaxTweets)
    \/ FollowAuthor
    \/ NukeOldTweets(MaxRows)
    \/ SendTweet
    \/ SendTweetWithImage
    \/ Return

Spec == Init /\ [][Next]_vars

----------------------------------------------------------------------------
(* Properties of the workflows *)

\* the ids handed to follow_user, or to unfollow_user, by the running workflow
Handed(kind) == {decided[k].user.id : k \in {j \in DOMAIN decided : decided[j].kind = kind}}
\* the ids the running workflow passed to the remote mutation op
Mutated(op) == {calls[k].id : k \in {j \in DOMAIN calls : calls[j].op = op}}

\* the ignored set as auto_follow_followers read it: it has since grown by the ids
\* follow_user put in
IgnoredAtStart == ReadIds(non_following_file) \ Handed("follow")

\* followers \ following \ (already-followed UNION ignored), from the files
FollowBackDifference ==
    (ReadIds(followers_file) \ ReadIds(follows_file))
        \ (ReadIds(already_followed_file) \cup IgnoredAtStart)

\* C1: auto_follow_followers hands to follow_user ids of followers \ following \
\* (already-followed UNION ignored) only, and create_friendship gets none but these;
\* when it returns, the ids handed over are exactly those of the difference the lookup
\* returned a profile for.
C1_FollowBackCandidates ==
    (workflow = "auto_follow_followers" /\ pc \in {"follow_back", "idle", "crashed"}) =>
        /\ looked \subseteq FollowBackDifference
        /\ Handed("follow") \subseteq looked
        /\ Mutated("create_friendship") \subseteq Handed("follow")
        /\ pc = "idle" => Handed("follow") = looked

\* followers = {1, 2}, following = {2}: the candidate is 1, and it was followed
C1_Witness ==
    /\ workflow = "auto_follow_followers"
    /\ pc = "idle"
    /\ ReadIds(followers_file) = {1, 2}
    /\ ReadIds(follows_file) = {2}
    /\ start.dnf = {}
    /\ Handed("follow") = {1}
    /\ Mutated("create_friendship") = {1}

\* C2: every destroy_friendship of auto_unfollow_nonfollowers targets an id that, in the
\* stores as read at the start, is followed, is no follower and is neither already
\* followed nor ignored.
C2_UnfollowTargets ==
    workflow = "auto_unfollow_nonfollowers" =>
        /\ start.following = ReadIds(follows_file)
        /\ start.followers = ReadIds(followers_file)
        /\ \A id \in Mutated("destroy_friendship") :
             /\ id \in start.following
             /\ id \notin start.followers
             /\ id \notin start.dnf

\* an account that does not follow back was unfollowed while a follower was kept
C2_Witness ==
    /\ workflow = "auto_unfollow_nonfollowers"
    /\ pc = "idle"
    /\ start.following = {1, 2}
    /\ start.followers = {2}
    /\ Mutated("destroy_friendship") = {1}

\* C3 as stated: no lookup request carries more than 100 ids.
C3_LookupBatched ==
    \A k \in DOMAIN requests : Len(requests[k]) <= LOOKUP_LIMIT

\* the ignored file never loses a line
IgnoredKept ==
    /\ Len(non_following_file) <= Len(non_following_file')
    /\ SubSeq(non_following_file', 1, Len(non_following_file)) = non_following_file

\* C10: the ignored set is append-only: every step of every workflow keeps the lines the
\* ignored file has, so an id in the ignored set stays in it.
C10_IgnoredAppendOnly == [][IgnoredKept]_vars

\* an id put in the ignored set by one workflow is still there after the next ones
C10_Witness ==
    /\ non_following_file # <<>>
    /\ workflow = "sync_follows"
    /\ pc = "idle"
    /\ ops = MaxOps

----------------------------------------------------------------------------
(* divide_chunks called directly *)

\* the lists divide_chunks is tried on: distinct elements, and one element repeated
ChunkInputs ==
    UNION {{[k \in 1..len |-> k], [k \in 1..len |-> 7]} : len \in 0..MaxLen}

InitChunks ==
    /\ followers_file = <<>>
    /\ follows_file = <<>>
    /\ already_followed_file = <<>>
    /\ non_following_file = <<>>
    /\ pc = "divide_chunks"
    /\ queue = <<>>
    /\ args = DefaultArgs
    /\ start = NoStart
    /\ requests = <<>>
    /\ looked = {}
    /\ calls = <<>>
    /\ decided = <<>>
    /\ workflow = "divide_chunks"
    /\ ops = 1
    /\ chunk_l \in ChunkInputs
    /\ chunk_n = CHUNK
    /\ chunks = <<>>
    /\ report = <<>>
    /\ Unconfigured

\* chunks = list(divide_chunks(l, n))
DivideChunks ==
    /\ pc = "divide_chunks"
    /\ chunks' = divide_chunks(chunk_l, chunk_n)
    /\ pc' = "idle"
    /\ UNCHANGED <<files, queue, args, start, requests, looked, calls, decided,
                   workflow, ops, chunk_l, chunk_n, report, configVars>>

NextChunks == DivideChunks

SpecChunks == InitChunks /\ [][NextChunks]_vars

RECURSIVE Flatten(_)
Flatten(ss) == IF ss = <<>> THEN <<>> ELSE Head(ss) \o Flatten(Tail(ss))

\* C4: divide_chunks(l, 99) yields ceil(N / 99) chunks, each non-empty and of at most 99
\* elements, whose concatenation in order is l.
C4_Chunks ==
    (pc = "idle" /\ workflow = "divide_chunks") =>
        /\ Len(chunks) = (Len(chunk_l) + CHUNK - 1) \div CHUNK
        /\ \A k \in DOMAIN chunks : Len(chunks[k]) >= 1 /\ Len(chunks[k]) <= CHUNK
        /\ Flatten(chunks) = chunk_l

\* a list of 2 * 99 + 1 elements was cut into three chunks, the last of one element
C4_Witness ==
    /\ pc = "idle"
    /\ workflow = "divide_chunks"
    /\ Len(chunk_l) = 2 * CHUNK + 1
    /\ Len(chunks) = 3
    /\ Len(chunks[3]) = 1

----------------------------------------------------------------------------
(* Properties of the policy filter *)

FollowSkips == {"SKIP_RATIO", "SKIP_LOW_FOLLOWERS", "SKIP_GHOST", "SKIP_PROTECTED",
                "SKIP_ALREADY_FOLLOWING"}

\* the ratio rule as the specification words it: friends_count = 0 counts as ratio 0
OutsideBand(u, a) ==
    IF u.friends_count = 0 THEN ~(a.ratio[1] <= 0 /\ 0 <= a.ratio[2])
    ELSE \/ 10 * u.followers_count < a.ratio[1] * u.friends_count
         \/ 10 * u.followers_count > a.ratio[2] * u.friends_count

Matches(rule, u, a) ==
    CASE rule = "SKIP_ALREADY_FOLLOWING" -> u.following
      [] rule = "SKIP_PROTECTED" -> u.protected
      [] rule = "SKIP_LOW_FOLLOWERS" -> u.followers_count < a.n_followers
      [] rule = "SKIP_GHOST" -> u.statuses_count < a.n_tweets
      [] rule = "SKIP_RATIO" -> OutsideBand(u, a)

\* the first rule of `order` the profile matches, PROCEED when it matches none
FirstMatch(order, u, a) ==
    LET hits == {k \in DOMAIN order : Matches(order[k], u, a)}
    IN  IF hits = {} THEN "PROCEED"
        ELSE order[CHOOSE k \in hits : \A j \in hits : k <= j]

\* the precedence the specification gives
SpecOrder == <<"SKIP_ALREADY_FOLLOWING", "SKIP_PROTECTED", "SKIP_LOW_FOLLOWERS",
               "SKIP_GHOST", "SKIP_RATIO">>
\* the precedence follow_user has
CodeOrder == <<"SKIP_RATIO", "SKIP_LOW_FOLLOWERS", "SKIP_GHOST", "SKIP_PROTECTED",
               "SKIP_ALREADY_FOLLOWING">>

FollowEntries == {k \in DOMAIN decided : decided[k].kind = "follow"}
\* the calls of follow_user that reached the rules with a ratio that can be computed
Evaluated == {k \in FollowEntries : /\ decided[k].user.id \notin decided[k].ignored_before
                                    /\ decided[k].user.friends_count > 0}

\* C5 as stated: the decision of follow_user is the first matching rule in the order
\* already following, protected, low followers, ghost, ratio, otherwise PROCEED
\* (stated for the profiles whose ratio can be computed).
C5_SpecOrder ==
    \A k \in Evaluated : decided[k].decision = FirstMatch(SpecOrder, decided[k].user, args)

\* C5 amended: the decision of follow_user for a profile not yet ignored is the first
\* matching rule in the order ratio outside the band, low followers, ghost, protected,
\* already following, otherwise PROCEED; a call for an id already in the ignored set,
\* or for a profile with friends_count = 0, ends without a decision.
C5_CodeOrder ==
    \A k \in FollowEntries :
        decided[k].decision =
            IF decided[k].user.id \in decided[k].ignored_before THEN "NONE"
            ELSE IF decided[k].user.friends_count = 0 THEN "NONE"
            ELSE FirstMatch(CodeOrder, decided[k].user, args)

\* a profile that matches the ratio rule and the already-following rule was decided
C5_Witness ==
    \E k \in Evaluated :
        /\ OutsideBand(decided[k].user, args)
        /\ decided[k].user.following
        /\ decided[k].user.protected
        /\ decided[k].decision = "SKIP_RATIO"

\* C6 as stated: a profile with friends_count = 0 is decided as one of ratio 0, SKIP_RATIO
\* with the id put in the ignored set when 0 is outside the band, by the remaining rules
\* when 0 is inside it.
C6_ZeroFriendsIsRatioZero ==
    \A k \in FollowEntries :
        (/\ decided[k].user.friends_count = 0
         /\ decided[k].user.id \notin decided[k].ignored_before)
        => /\ decided[k].decision = FirstMatch(CodeOrder, decided[k].user, args)
           /\ decided[k].decision \in FollowSkips
                => decided[k].user.id \in decided[k].ignored_after

\* C7: a ratio equal to the low or to the high bound is not rejected by the ratio rule,
\* a ratio strictly below the low or strictly above the high bound is rejected with
\* SKIP_RATIO (friends_count > 0).
C7_BandInclusive ==
    \A k \in Evaluated :
        LET u == decided[k].user
            lo == args.ratio[1] * u.friends_count
            hi == args.ratio[2] * u.friends_count
            r == 10 * u.followers_count
        IN  /\ (r = lo \/ r = hi) => decided[k].decision # "SKIP_RATIO"
            /\ (r < lo \/ r > hi) => decided[k].decision = "SKIP_RATIO"

\* a profile with its ratio on the low bound, and one on the high bound, was let through
C7_Witness ==
    \E k \in Evaluated :
        /\ args.ratio[1] > 0
        /\ \/ 10 * decided[k].user.followers_count = args.ratio[1] * decided[k].user.friends_count
           \/ 10 * decided[k].user.followers_count = args.ratio[2] * decided[k].user.friends_count
        /\ decided[k].decision = "PROCEED"

\* C8: after follow_user ended in a SKIP the id is in the ignored set and the call made
\* no create_friendship; followers_count = 50 under min_followers = 100 (ratio inside
\* the band) is SKIP_LOW_FOLLOWERS.
C8_SkipIsIgnored ==
    \A k \in FollowEntries :
        LET u == decided[k].user
        IN  /\ decided[k].decision \in FollowSkips
                => /\ u.id \in decided[k].ignored_after
                   /\ u.id \in ReadIds(non_following_file)
                   /\ \A c \in DOMAIN decided[k].calls :
                        decided[k].calls[c].op # "create_friendship"
            /\ (/\ k \in Evaluated
                /\ u.followers_count = 50
                /\ args.n_followers = 100
                /\ ~OutsideBand(u, args))
                => /\ decided[k].decision = "SKIP_LOW_FOLLOWERS"
                   /\ u.id \in ReadIds(non_following_file)

\* the scenario: followers_count = 50, min_followers = 100
C8_Witness ==
    \E k \in Evaluated :
        /\ decided[k].user.followers_count = 50
        /\ args.n_followers = 100
        /\ decided[k].decision = "SKIP_LOW_FOLLOWERS"
        /\ decided[k].user.id \notin decided[k].ignored_before
        /\ decided[k].user.id \in ReadIds(non_following_file)

\* both runs of the filter on the one profile are over
RanTwice == Len(decided) = 2 /\ decided[1].user = decided[2].user

\* C9 as stated: the two runs yield the same decision and the second leaves the ignored
\* set the same size.
C9_SameDecision ==
    RanTwice =>
        /\ decided[2].decision = decided[1].decision
        /\ Cardinality(decided[2].ignored_after) = Cardinality(decided[1].ignored_after)

\* a create_friendship of the call logged as entry k failed
CreateFailed(k) ==
    \E c \in DOMAIN decided[k].calls :
        /\ decided[k].calls[c].op = "create_friendship"
        /\ decided[k].calls[c].result # "ok"

\* C9 amended: unfollow_user decides the same both times and its second run leaves the
\* ignored set, read as a set, as it was; follow_user decides the same both times unless
\* the first run put the id in the ignored set (a SKIP, or a create_friendship that
\* failed), and then the second run ends at the ignored check without a decision; the
\* second run of follow_user leaves the ignored set as it was unless it is the run whose
\* create_friendship fails, which adds the id.
C9_Idempotent ==
    RanTwice =>
        /\ decided[1].kind = "unfollow" =>
             /\ decided[2].decision = decided[1].decision
             /\ decided[2].ignored_after = decided[1].ignored_after
             /\ ReadIds(non_following_file) = decided[1].ignored_after
        /\ decided[1].kind = "follow" =>
             /\ decided[2].decision =
                    IF decided[1].user.id \in decided[1].ignored_after THEN "NONE"
                    ELSE decided[1].decision
             /\ ReadIds(non_following_file) =
                    IF CreateFailed(2)
                    THEN decided[1].ignored_after \cup {decided[2].user.id}
                    ELSE decided[1].ignored_after

\* follow_user skipped a profile and then ran again on it; unfollow_user did the same
C9_Witness ==
    /\ RanTwice
    /\ decided[1].kind = "follow"
    /\ decided[1].decision \in FollowSkips
    /\ decided[2].decision = "NONE"
    /\ decided[1].user.id \notin decided[1].ignored_before

\* C11 as stated: a call of follow_user that decided PROCEED and whose create_friendship
\* then failed leaves the ignored set as it was.
C11_FailedCreateNotIgnored ==
    \A k \in FollowEntries :
        (decided[k].decision = "PROCEED" /\ CreateFailed(k))
            => decided[k].ignored_after = decided[k].ignored_before

----------------------------------------------------------------------------
(* Properties of the error handling and of the pacing *)

\* the remote calls that change something
Mutations == {"create_friendship", "destroy_friendship", "destroy_status", "update_status",
              "update_with_media"}

\* C12 as stated: once a remote mutation of a run has answered with the quota error, the
\* run issues no further remote mutation.
C12_QuotaIsFatal ==
    \A i, j \in DOMAIN calls :
        (i < j /\ calls[i].op \in Mutations /\ calls[i].result = "quota")
            => calls[j].op \notin Mutations

\* the rows of the archive nuke_old_tweets gets to: those up to the first timestamp that
\* does not parse
Visited == {k \in DOMAIN start.rows : \A j \in 1..k : start.rows[j].valid}
\* the rows dated before the cutoff among them
Selected == {k \in Visited : Earlier(start.rows[k], start.to_date)}
\* nuke_old_tweets got past its checks of the date and of the file
NukeRan == workflow = "nuke_old_tweets" /\ start.to_date.valid /\ start.readable

\* C13: a remote mutation that fails with an error other than the quota error does not
\* end the batch: in auto_follow_followers and auto_unfollow_nonfollowers every profile
\* looked up is either decided or still waiting in the loop, and the loop has stopped
\* early only on the quota error of create_friendship; in nuke_old_tweets every row dated
\* before the cutoff gets its destroy_status, whatever the earlier calls answered.
C13_BestEffort ==
    /\ (workflow \in {"auto_follow_followers", "auto_unfollow_nonfollowers"}
            /\ decided # <<>>) =>
        /\ pc = "crashed" =>
             \E c \in DOMAIN decided[Len(decided)].calls :
                 /\ decided[Len(decided)].calls[c].op = "create_friendship"
                 /\ decided[Len(decided)].calls[c].result = "quota"
        /\ pc # "crashed" => Len(decided) + Len(queue) = Cardinality(looked)
        /\ pc = "idle" => queue = <<>>
    /\ NukeRan =>
        /\ Mutated("destroy_status") = Selected
        /\ pc = "crashed" => Visited # DOMAIN start.rows

\* a destroy_friendship failed and the next profile was handed to unfollow_user all the
\* same
C13_Witness ==
    /\ workflow = "auto_unfollow_nonfollowers"
    /\ pc = "idle"
    /\ Len(decided) = 2
    /\ \E c \in DOMAIN decided[1].calls :
         /\ decided[1].calls[c].op = "destroy_friendship"
         /\ decided[1].calls[c].result = "error"
    /\ decided[2].decision = "PROCEED"

\* C14 as stated: a username_lookup that fails does not end the workflow: every chunk of
\* auto_unfollow_nonfollowers is still requested, and neither workflow stops at a lookup.
C14_LookupFailureSkipped ==
    /\ workflow = "auto_unfollow_nonfollowers" =>
        /\ pc # "crashed"
        /\ start.not_following_back # <<>> =>
             requests = divide_chunks(start.not_following_back, CHUNK)
    /\ (workflow = "auto_follow_followers" /\ requests # <<>> /\ decided = <<>>) =>
        pc # "crashed"

\* C15 as stated: every remote mutation of a run has its own wait right before it.
C15_WaitBeforeMutation ==
    \A k \in DOMAIN calls :
        calls[k].op \in Mutations => (k > 1 /\ calls[k - 1] = Wait)

----------------------------------------------------------------------------
(* The candidates of auto_follow_by_hashtag built directly from a search result *)

InitCandidates ==
    /\ followers_file = <<>>
    /\ follows_file = <<>>
    /\ already_followed_file = <<>>
    /\ non_following_file = <<>>
    /\ pc = "candidates"
    /\ queue = <<>>
    /\ args = DefaultArgs
    /\ \E results \in SearchResults(MaxPosts) : start = [results |-> results]
    /\ requests = <<>>
    /\ looked = {}
    /\ calls = <<>>
    /\ decided = <<>>
    /\ workflow = "candidates"
    /\ ops = 1
    /\ chunk_l = <<>>
    /\ chunk_n = CHUNK
    /\ chunks = <<>>
    /\ report = <<>>
    /\ Unconfigured

\* auto_follow_by_hashtag from results to statuses
Candidates ==
    /\ pc = "candidates"
    /\ queue' = statuses(start.results)
    /\ pc' = "idle"
    /\ UNCHANGED <<files, args, start, requests, looked, calls, decided, workflow, ops,
                   chunkVars, configVars, report>>

NextCandidates == Candidates

SpecCandidates == InitCandidates /\ [][NextCandidates]_vars

\* the candidates have been built from the search result
Built == workflow = "candidates" /\ pc = "idle"

\* the place in the results where the author of post p first comes up
Discovered(p) ==
    CHOOSE j \in DOMAIN start.results :
        /\ start.results[j].user.screen_name = p.user.screen_name
        /\ \A m \in 1..(j - 1) : start.results[m].user.screen_name # p.user.screen_name

\* C17: the candidates hold at most one post for a screen name, every candidate is a post
\* of the results, and the authors stand in the order in which the results first show
\* them.
C17_OnePostPerAuthorInOrder ==
    Built =>
        /\ \A k \in DOMAIN queue : \E j \in DOMAIN start.results : start.results[j] = queue[k]
        /\ \A j, k \in DOMAIN queue :
             j < k => /\ queue[j].user.screen_name # queue[k].user.screen_name
                      /\ Discovered(queue[j]) < Discovered(queue[k])

\* the results showed one author, then another, then the first again: two candidates, in
\* that order
C17_Witness ==
    /\ Built
    /\ Len(start.results) = 3
    /\ start.results[1].user.screen_name = start.results[3].user.screen_name
    /\ start.results[1].user.screen_name # start.results[2].user.screen_name
    /\ Len(queue) = 2
    /\ queue[1].user.screen_name = start.results[1].user.screen_name
    /\ queue[2].user.screen_name = start.results[2].user.screen_name

\* C18 as stated: the post kept for an author is the latest created of the author's posts
\* in the results.
C18_LatestPostKept ==
    Built =>
        \A k \in DOMAIN queue : \A j \in DOMAIN start.results :
            start.results[j].user.screen_name = queue[k].user.screen_name
                => start.results[j].created_at <= queue[k].created_at

\* the screen name of the operator's own account, as configured
OwnHandle == default_settings["twitter_handle"]

\* C19 as stated: no post of the operator's own account is among the candidates of
\* auto_follow_by_hashtag and no create_friendship is issued for the own account.
C19_OwnAccountExcluded ==
    /\ workflow = "auto_follow_by_hashtag" =>
        \A k \in DOMAIN queue : queue[k].user.screen_name # OwnHandle
    /\ OwnId \notin Mutated("create_friendship")

\* the rows destroy_status was called for, in the order of the calls
DestroyedRows == SelectSeq(calls, LAMBDA c : c.op = "destroy_status")

\* C20: among the rows nuke_old_tweets reaches (all rows of an archive whose timestamps
\* parse) destroy_status is requested for a row exactly when its date is strictly before
\* the cutoff: a row of 2019-05-01 under the cutoff 2020-01-01 is selected, a row of
\* 2021-01-01 and a row of the day of the cutoff are not; the calls come in the order of
\* the archive, one for each selected row.
C20_StrictlyBeforeCutoff ==
    NukeRan =>
        /\ Mutated("destroy_status") = Selected
        /\ Len(DestroyedRows) = Cardinality(Selected)
        /\ \A j, k \in DOMAIN DestroyedRows : j < k => DestroyedRows[j].id < DestroyedRows[k].id
        /\ start.to_date = Date(2020, 1, 1) =>
             \A k \in Visited :
                /\ start.rows[k] = Date(2019, 5, 1) => k \in Mutated("destroy_status")
                /\ start.rows[k] \in {Date(2021, 1, 1), Date(2020, 1, 1)}
                     => k \notin Mutated("destroy_status")

\* an archive of a row of 2019-05-01 and a row of the day of the cutoff, 2020-01-01: the
\* one call is for the first row
C20_Witness ==
    /\ NukeRan
    /\ pc = "idle"
    /\ start.to_date = Date(2020, 1, 1)
    /\ start.rows = <<Date(2019, 5, 1), Date(2020, 1, 1)>>
    /\ Len(DestroyedRows) = 1
    /\ DestroyedRows[1].id = 1

----------------------------------------------------------------------------
(* Properties of nuke_old_tweets on malformed input, and of its report *)

\* the archive has a row whose timestamp does not parse
Malformed == \E k \in DOMAIN start.rows : ~start.rows[k].valid

\* the rows whose destroy_status succeeded: the tweets that are gone
Deleted == {calls[k].id : k \in {j \in DOMAIN calls : /\ calls[j].op = "destroy_status"
                                                      /\ calls[j].result = "ok"}}

\* C21 as stated: malformed local input ends nuke_old_tweets with no partial effect: with a
\* cutoff that is no date, or an archive that cannot be opened, no destroy_status is
\* issued and the method returns; with a malformed row in the archive no row of the
\* archive has been deleted.
C21_NoPartialEffect ==
    workflow = "nuke_old_tweets" =>
        /\ (~start.to_date.valid \/ ~start.readable) => (calls = <<>> /\ pc = "idle")
        /\ Malformed => Deleted = {}

\* C28 as stated: the number nuke_old_tweets reports as "Number of deleted tweets" is the
\* number of destroy_status calls that succeeded in the run.
C28_ReportCountsDeletions ==
    (workflow = "nuke_old_tweets" /\ report # <<>>) => report[1] = Cardinality(Deleted)

----------------------------------------------------------------------------
(* Properties of the sync and of the stores *)

\* the waits of the running workflow, and its remote mutations
Waits == {k \in DOMAIN calls : calls[k] = Wait}
MutationCalls == {k \in DOMAIN calls : calls[k].op \in Mutations}

\* sync_follows ran in the running workflow, up to its wait at least: the log holds the
\* wait of sync_follows besides the one wait that comes with each mutation
Synced == Cardinality(Waits) = Cardinality(MutationCalls) + 1

\* C24 as stated: when auto_follow_followers or auto_unfollow_nonfollowers is called with
\* auto_sync true, sync_follows has run before the stores are read for the candidates.
C24_SyncFirst ==
    (/\ workflow \in {"auto_follow_followers", "auto_unfollow_nonfollowers"}
     /\ args.auto_sync
     /\ pc \in {"follow_back", "unfollow", "idle"})
        => Synced

----------------------------------------------------------------------------
(* Properties of the unfollow path *)

UnfollowEntries == {k \in DOMAIN decided : decided[k].kind = "unfollow"}

\* C25: a call of unfollow_user for a profile whose verified flag differs from
\* unfollow_verified issues no destroy_friendship and appends the id to the ignored set;
\* with unfollow_verified = False auto_unfollow_nonfollowers unfollows no verified account.
C25_VerifiedMismatchSkipped ==
    \A k \in UnfollowEntries :
        LET u == decided[k].user
        IN  /\ u.verified # args.unfollow_verified =>
                 /\ decided[k].decision = "SKIP_VERIFIED_MISMATCH"
                 /\ decided[k].calls = <<>>
                 /\ decided[k].ignored_after = decided[k].ignored_before \cup {u.id}
                 /\ u.id \in ReadIds(non_following_file)
            /\ (workflow = "auto_unfollow_nonfollowers" /\ ~args.unfollow_verified
                    /\ u.verified)
                 => u.id \notin Mutated("destroy_friendship")

\* auto_unfollow_nonfollowers, called as the command line calls it, met a verified account
\* it follows and an account that is not verified: it kept the first and unfollowed the
\* second
C25_Witness ==
    /\ workflow = "auto_unfollow_nonfollowers"
    /\ pc = "idle"
    /\ ~args.unfollow_verified
    /\ Len(decided) = 2
    /\ \E j, k \in UnfollowEntries :
         /\ decided[j].user.verified /\ decided[j].user.following
         /\ decided[j].decision = "SKIP_VERIFIED_MISMATCH"
         /\ decided[j].user.id \notin decided[j].ignored_before
         /\ decided[j].user.id \in ReadIds(non_following_file)
         /\ ~decided[k].user.verified
         /\ decided[k].decision = "PROCEED"
         /\ Mutated("destroy_friendship") = {decided[k].user.id}

----------------------------------------------------------------------------
(* The unfollow workflows run on stores that earlier runs have filled *)

\* unfollow_list_of_users(users): what the caller may pass. An element of the list is a
\* user object, a bare user id, or itself a list; users may also be no list at all (None)
NotAList == [given |-> FALSE, list |-> <<>>]
AList(l) == [given |-> TRUE, list |-> l]
UserElement(u) == [kind |-> "user", user |-> u]
IdElement(id) == [kind |-> "id", id |-> id]
ListElement(id) == [kind |-> "list", id |-> id]
\* a line of the non-followers file, as the fallback reads it: a string
LineElement(line) == [kind |-> "line", id |-> int(line)]

\* the lists tried: up to two elements of one kind, the user objects being accounts the
\* requester follows
UserLists ==
    LET followed(id) == Profile(id, ScreenName(id), 100, 100, 100, FALSE, TRUE, FALSE)
        elements == {UserElement(followed(id)) : id \in Ids}
                        \cup {IdElement(id) : id \in Ids}
                        \cup {ListElement(id) : id \in Ids}
    IN  {<<>>} \cup {<<e>> : e \in elements}
               \cup {<<d, e>> : d \in elements, e \in elements}

\* the contents of default_settings["non_followers_file"], which no method writes
NonFollowersFiles == {<<>>} \cup {WriteIds(<<id>>) : id \in Ids}

\* the loop of unfollow_list_of_users over the elements from the head on, given the answer
\* of destroy_friendship for each element: unfollow_user(user_id) with its default flags,
\* which logs and swallows the AttributeError of an element that is no user object, then
\* user_id.pop(0), which only a list has
RECURSIVE unfollow_each(_, _, _)
unfollow_each(elements, api, acc) ==
    IF elements = <<>> THEN acc
    ELSE LET e == Head(elements)
             r == IF e.kind = "user"
                  THEN unfollow_user(acc.file, e.user, FALSE, FALSE, api[Len(acc.decided) + 1])
                  ELSE [file |-> acc.file, calls |-> <<>>, decision |-> "NONE",
                        raised |-> FALSE]
             next == [file |-> r.file,
                      calls |-> acc.calls \o r.calls,
                      decided |-> IF e.kind = "user"
                                  THEN Append(acc.decided,
                                              Decided("unfollow", acc.file, e.user, r))
                                  ELSE acc.decided,
                      left |-> Tail(elements),
                      raised |-> e.kind # "list"]
         IN  IF next.raised THEN next ELSE unfollow_each(Tail(elements), api, next)

\* unfollow_list_of_users(users)
UnfollowListOfUsers ==
    /\ Begin("unfollow_list_of_users")
    /\ \E users \in {NotAList} \cup {AList(l) : l \in UserLists},
          lines \in NonFollowersFiles :
         LET unfollow_users ==
                 IF users.given THEN users.list
                 ELSE [k \in DOMAIN lines |-> LineElement(lines[k])]
         IN  \E api \in [1..Len(unfollow_users) -> ApiOutcomes] :
               LET r == unfollow_each(unfollow_users, api,
                                      [file |-> non_following_file, calls |-> <<>>,
                                       decided |-> <<>>, left |-> unfollow_users,
                                       raised |-> FALSE])
               IN  /\ start' = [users |-> users, lines |-> lines,
                                unfollow_users |-> unfollow_users]
                   /\ non_following_file' = r.file
                   /\ calls' = r.calls
                   /\ decided' = r.decided
                   /\ queue' = r.left
                   /\ pc' = IF r.raised THEN "crashed" ELSE "idle"
    /\ args' = DefaultArgs
    /\ requests' = <<>>
    /\ looked' = {}
    /\ UNCHANGED <<followers_file, follows_file, already_followed_file, chunkVars, configVars,
                   report>>

\* the stores as a sync and earlier runs of auto_unfollow_nonfollowers can have left them
InitStores ==
    /\ followers_file \in {WriteIds(SetToList(S)) : S \in SUBSET Ids}
    /\ follows_file \in {WriteIds(SetToList(S)) : S \in SUBSET Ids}
    /\ already_followed_file \in {WriteIds(SetToList(S)) : S \in SUBSET Ids}
    /\ non_following_file = <<>>
    /\ pc = "idle"
    /\ queue = <<>>
    /\ args = DefaultArgs
    /\ start = NoStart
    /\ requests = <<>>
    /\ looked = {}
    /\ calls = <<>>
    /\ decided = <<>>
    /\ workflow = "none"
    /\ ops = MaxOps - 1
    /\ chunk_l = <<>>
    /\ chunk_n = CHUNK
    /\ chunks = <<>>
    /\ report = <<>>
    /\ Unconfigured

NextStores ==
    \/ AutoUnfollowNonfollowers
    \/ Unfollow
    \/ UnfollowListOfUsers
    \/ Return

SpecStores == InitStores /\ [][NextStores]_vars

\* the already-followed store keeps the ids it has
AlreadyFollowedKept == ReadIds(already_followed_file) \subseteq ReadIds(already_followed_file')

\* C27 as stated: the already-followed set never shrinks: every step of every run of
\* auto_unfollow_nonfollowers leaves in the store the ids it held.
C27_AlreadyFollowedGrows == [][AlreadyFollowedKept]_vars

\* C30 as stated: given a non-empty list, unfollow_list_of_users hands every element of
\* the list to unfollow_user, in order, and returns normally; given an empty list or no
\* list it does the same with the entries of the non-followers file.
C30_UnfollowsEveryElement ==
    workflow = "unfollow_list_of_users" =>
        /\ start.unfollow_users =
              IF start.users.given /\ start.users.list # <<>> THEN start.users.list
              ELSE [k \in DOMAIN start.lines |-> LineElement(start.lines[k])]
        /\ queue = <<>>
        /\ Len(decided) = Cardinality({k \in DOMAIN start.unfollow_users :
                                          start.unfollow_users[k].kind = "user"})
        /\ pc = "idle"

----------------------------------------------------------------------------
(* sync_follows when the listings come in pages *)

\* a listing as the service serves it: pages of at most PageSize ids, each answered with
\* the cursor of the next page, the last with next_cursor = 0; no ids make one empty page
Pages(ids) == IF ids = <<>> THEN << <<>> >> ELSE divide_chunks(ids, PageSize)
PagedListings == {Pages(SetToList(S)) : S \in SUBSET Ids}

\* all ids of a listing
AllPages(pages) == Range(Flatten(pages))

\* self.twitter.followers_ids() and self.twitter.friends_ids() of src/twitterBot.py: one
\* request with no cursor, answered with the first page
followers_ids(pages) == Head(pages)
friends_ids(pages) == Head(pages)

\* src/TwitterBot.py: one listing fetched by the cursor loop of sync_follows when the first
\* `done` requests for it were answered: the first page is written with "w", every further
\* page appended with "a"; with no answer at all the file is left as it was
cursor_loop(file, pages, done) ==
    IF done = 0 THEN file ELSE WriteIds(Flatten(SubSeq(pages, 1, done)))

\* src/TwitterBot.py: sync_follows, where request number fail raises (0: none does); the
\* requests are those for the pages of the followers, then those for the pages of the
\* following
TwitterBot_sync_follows(follower_pages, friend_pages, fail) ==
    LET answered == IF fail = 0 THEN Len(follower_pages) + Len(friend_pages) ELSE fail - 1
        of_followers == Min(answered, Len(follower_pages))
    IN  [followers |-> cursor_loop(followers_file, follower_pages, of_followers),
         follows |-> cursor_loop(follows_file, friend_pages, answered - of_followers),
         raised |-> fail # 0]

\* the remote listings, and the stores as an earlier sync left them
InitPages ==
    /\ followers_file \in {WriteIds(SetToList(S)) : S \in SUBSET Ids}
    /\ follows_file \in {WriteIds(SetToList(S)) : S \in SUBSET Ids}
    /\ already_followed_file = <<>>
    /\ non_following_file = <<>>
    /\ pc = "idle"
    /\ queue = <<>>
    /\ args = DefaultArgs
    /\ \E fl \in PagedListings, fr \in PagedListings :
         start = [follower_pages |-> fl, friend_pages |-> fr]
    /\ requests = <<>>
    /\ looked = {}
    /\ calls = <<>>
    /\ decided = <<>>
    /\ workflow = "none"
    /\ ops = MaxOps - 1
    /\ chunk_l = <<>>
    /\ chunk_n = CHUNK
    /\ chunks = <<>>
    /\ report = <<>>
    /\ Unconfigured

\* src/twitterBot.py: tweeter_bot.sync_follows() against the paged listings
SyncFollowsPaged ==
    /\ Begin("sync_follows")
    /\ \E answer \in {<<Raises, Raises>>,
                      <<Returns(followers_ids(start.follower_pages)), Raises>>,
                      <<Returns(followers_ids(start.follower_pages)),
                        Returns(friends_ids(start.friend_pages))>>} :
         LET r == sync_follows(answer[1], answer[2])
         IN  /\ followers_file' = r.followers
             /\ follows_file' = r.follows
             /\ calls' = r.calls
             /\ pc' = IF r.raised THEN "crashed" ELSE "idle"
    /\ UNCHANGED <<already_followed_file, non_following_file, queue, args, start, requests,
                   looked, decided, chunkVars, configVars, report>>

\* src/TwitterBot.py: bot.sync_follows against the paged listings
TwitterBotSyncFollows ==
    /\ Begin("TwitterBot.sync_follows")
    /\ \E fail \in 0..(Len(start.follower_pages) + Len(start.friend_pages)) :
         LET r == TwitterBot_sync_follows(start.follower_pages, start.friend_pages, fail)
         IN  /\ followers_file' = r.followers
             /\ follows_file' = r.follows
             /\ pc' = IF r.raised THEN "crashed" ELSE "idle"
    /\ UNCHANGED <<already_followed_file, non_following_file, queue, args, start, requests,
                   looked, calls, decided, chunkVars, configVars, report>>

NextPages == SyncFollowsPaged \/ TwitterBotSyncFollows

SpecPages == InitPages /\ [][NextPages]_vars

\* C23 as stated: after sync_follows has completed, the followers store holds exactly the
\* ids of all pages of the follower listing and the following store exactly the ids of
\* all pages of the following listing, whatever the stores held before.
C23_StoresAreAllPages ==
    (workflow \in {"sync_follows", "TwitterBot.sync_follows"} /\ pc = "idle") =>
        /\ ReadIds(followers_file) = AllPages(start.follower_pages)
        /\ ReadIds(follows_file) = AllPages(start.friend_pages)

----------------------------------------------------------------------------
(* The config-file variant, src/TwitterBot.py: bot_setup *)

\* follow_user(user_id, no_followers=100) of src/TwitterBot.py
NO_FOLLOWERS == 100

required_parameters ==
    <<"OAUTH_TOKEN", "OAUTH_SECRET", "CONSUMER_KEY", "CONSUMER_SECRET", "TWITTER_HANDLE",
      "ALREADY_FOLLOWED_FILE", "FOLLOWERS_FILE", "NON_FOLLOWERS_FILE", "FOLLOWS_FILE">>

\* the parameters whose value is a list of user ids
IdListParameters == {"USERS_KEEP_FOLLOWING", "USERS_KEEP_UNMUTED", "USERS_KEEP_MUTED"}

\* a line of the config file, as line.split(":") with each field stripped: a line
\* "PARAMETER: value" has two fields, a blank line has one
Line(parameter, value) == <<parameter, value>>
BlankLine == <<"">>

\* the value a complete config file gives a required parameter
ValueOf(parameter) ==
    CASE parameter = "ALREADY_FOLLOWED_FILE" -> "already-followed.txt"
      [] parameter = "FOLLOWERS_FILE" -> "followers.txt"
      [] parameter = "NON_FOLLOWERS_FILE" -> "non-followers.txt"
      [] parameter = "FOLLOWS_FILE" -> "following.txt"
      [] parameter = "TWITTER_HANDLE" -> "bot"
      [] OTHER -> "secret"

\* value.split(",") of the values tried for USERS_KEEP_FOLLOWING
split(value) ==
    CASE value = "1" -> <<str(1)>>
      [] value = "1,2" -> <<str(1), str(2)>>

\* the lines of the required parameters from number k on, where parameter number `omit`
\* has no line and parameter number `empty` has a line with no value (0: none)
RECURSIVE RequiredLines(_, _, _)
RequiredLines(k, omit, empty) ==
    IF k > Len(required_parameters) THEN <<>>
    ELSE (IF k = omit THEN <<>>
          ELSE IF k = empty THEN <<Line(required_parameters[k], "")>>
          ELSE <<Line(required_parameters[k], ValueOf(required_parameters[k]))>>)
         \o RequiredLines(k + 1, omit, empty)

\* the config files tried: complete ones, ones with one required parameter left out or
\* left empty; with or without a USERS_KEEP_FOLLOWING line; with or without a blank line,
\* at the start or at the end of the file; and a file that does not exist
NoConfigFile == [exists |-> FALSE, lines |-> <<>>]
ConfigFiles ==
    {NoConfigFile} \cup
    {[exists |-> TRUE, lines |-> before \o RequiredLines(1, omit, empty) \o keep \o after] :
        omit \in 0..Len(required_parameters),
        empty \in 0..Len(required_parameters),
        keep \in {<<>>} \cup {<<Line("USERS_KEEP_FOLLOWING", v)>> : v \in {"", "1", "1,2"}},
        before \in {<<>>, <<BlankLine>>},
        after \in {<<>>, <<BlankLine>>}}

\* self.BOT_CONFIG[parameter] = value
Put(config, parameter, value) ==
    [p \in DOMAIN config \cup {parameter} |-> IF p = parameter THEN value ELSE config[p]]

\* the loop of bot_setup over the lines of the file: the configuration read, and whether
\* line[1] raised IndexError on a line with no colon
RECURSIVE read_config(_, _)
read_config(lines, config) ==
    IF lines = <<>> THEN [config |-> config, raised |-> FALSE]
    ELSE LET line == Head(lines)
         IN  IF Len(line) < 2 THEN [config |-> config, raised |-> TRUE]
             ELSE LET parameter == line[1]
                      value == line[2]
                  IN  read_config(Tail(lines),
                        Put(config, parameter,
                            IF parameter \in IdListParameters
                            THEN (IF value # "" THEN {int(x) : x \in Range(split(value))}
                                  ELSE {})
                            ELSE value))

\* a variant of is_missing that takes an empty value for a value
is_missing_when_absent(config, required_parameter) ==
    required_parameter \notin DOMAIN config

\* required_parameter not in self.BOT_CONFIG or self.BOT_CONFIG[required_parameter] == ""
is_missing(config, required_parameter) ==
    \/ required_parameter \notin DOMAIN config
    \/ config[required_parameter] = ""

missing_parameters(config) ==
    SelectSeq(required_parameters, LAMBDA p : is_missing(config, p))

\* bot_setup(config_file) on a new object (BOT_CONFIG = {}, twitter_con = None), given the
\* sync files that exist: what it leaves in BOT_CONFIG, the sync files that exist after
\* it, the connection, and whether it raised
bot_setup(config_file, existing) ==
    LET read == read_config(config_file.lines, <<>>)
        out(c, f, t, r) == [BOT_CONFIG |-> c, sync_files |-> f, twitter_con |-> t,
                            raised |-> r]
    IN  IF ~config_file.exists THEN out(<<>>, existing, "None", TRUE)
        ELSE IF read.raised THEN out(read.config, existing, "None", TRUE)
        ELSE IF missing_parameters(read.config) # <<>> THEN out(<<>>, existing, "None", TRUE)
        ELSE out(read.config,
                 existing \cup {read.config["ALREADY_FOLLOWED_FILE"],
                                read.config["FOLLOWS_FILE"],
                                read.config["NON_FOLLOWERS_FILE"],
                                read.config["FOLLOWERS_FILE"]},
                 "connected", FALSE)

\* the sync files of a complete config file
SyncFiles == {ValueOf("ALREADY_FOLLOWED_FILE"), ValueOf("FOLLOWS_FILE"),
              ValueOf("NON_FOLLOWERS_FILE"), ValueOf("FOLLOWERS_FILE")}

\* TwitterBot(config_file) is being constructed; the sync files either do not exist yet or
\* are as earlier runs left them
InitConfig ==
    /\ \/ /\ sync_files = {}
          /\ followers_file = <<>>
          /\ follows_file = <<>>
          /\ already_followed_file = <<>>
       \/ /\ sync_files = SyncFiles
          /\ followers_file \in {WriteIds(SetToList(S)) : S \in SUBSET Ids}
          /\ follows_file \in {WriteIds(SetToList(S)) : S \in SUBSET Ids}
          /\ already_followed_file \in {<<>>, WriteIds(<<MaxId>>)}
    /\ non_following_file = <<>>
    /\ pc = "bot_setup"
    /\ queue = <<>>
    /\ args = DefaultArgs
    /\ \E config_file \in ConfigFiles :
         start = [config_file |-> config_file, existing |-> sync_files, read |-> NoStart]
    /\ requests = <<>>
    /\ looked = {}
    /\ calls = <<>>
    /\ decided = <<>>
    /\ workflow = "__init__"
    /\ ops = 0
    /\ chunk_l = <<>>
    /\ chunk_n = CHUNK
    /\ chunks = <<>>
    /\ report = <<>>
    /\ BOT_CONFIG = <<>>
    /\ twitter_con = "None"

\* self.bot_setup(config_file), called by __init__
BotSetup ==
    /\ pc = "bot_setup"
    /\ LET r == bot_setup(start.config_file, sync_files)
       IN  /\ BOT_CONFIG' = r.BOT_CONFIG
           /\ sync_files' = r.sync_files
           /\ twitter_con' = r.twitter_con
           /\ pc' = IF r.raised THEN "crashed" ELSE "idle"
    /\ workflow' = "bot_setup"
    /\ UNCHANGED <<files, queue, args, start, requests, looked, calls, decided, ops,
                   chunkVars, report>>

----------------------------------------------------------------------------
(* The config-file variant, src/TwitterBot.py: follow_user, auto_unfollow_nonfollowers *)

\* a method is called on the bot that bot_setup has set up
Called(name) ==
    /\ pc = "idle"
    /\ workflow = "bot_setup"
    /\ twitter_con = "connected"
    /\ workflow' = name

\* what users.lookup(user_id=user_id) can hold of an account
FollowerCounts == {NO_FOLLOWERS - 50, NO_FOLLOWERS, NO_FOLLOWERS + 50}
LookedUp(id) ==
    {Profile(id, ScreenName(id), followers, 100, 100, protected, FALSE, FALSE) :
        followers \in FollowerCounts, protected \in BOOLEAN}

\* what one call of follow_user(user_id, no_followers) does with the one user the lookup
\* returned; api is the answer of friendships.create
TwitterBot_follow_user(user_id, user, no_followers, api) ==
    LET out(c, d) == [file |-> non_following_file, calls |-> c, decision |-> d,
                      raised |-> FALSE]
    IN  IF user.followers_count > no_followers THEN out(<<>>, "SKIP_LOW_FOLLOWERS")
        ELSE IF ~user.protected
        THEN out(<<Call("friendships.create", user_id, api)>>
                    \o (IF api = "ok" THEN <<Wait>> ELSE <<>>), "PROCEED")
        ELSE out(<<>>, "SKIP_PROTECTED")

\* bot.follow_user(user_id); the lookup may raise or return nothing, which ends the call
\* with nothing done
TwitterBotFollowUser ==
    /\ Called("TwitterBot.follow_user")
    /\ \E user_id \in Ids :
         /\ \/ /\ calls' = <<>>
               /\ decided' = <<>>
            \/ \E user \in LookedUp(user_id), api \in ApiOutcomes :
                 LET r == TwitterBot_follow_user(user_id, user, args.n_followers, api)
                 IN  /\ calls' = r.calls
                     /\ decided' = <<Decided("follow", non_following_file, user, r)>>
    /\ args' = [DefaultArgs EXCEPT !.n_followers = NO_FOLLOWERS]
    /\ UNCHANGED <<files, pc, queue, start, requests, looked, ops, chunkVars, configVars,
                   report>>

\* what one call of unfollow_user(user_id) does: friendships.destroy, then the wait unless
\* the call raised; the error is logged
TwitterBot_unfollow_user(user_id, api) ==
    <<Call("friendships.destroy", user_id, api)>> \o (IF api = "ok" THEN <<Wait>> ELSE <<>>)

\* for user_id in not_following_back:
\*     if user_id not in self.BOT_CONFIG["USERS_KEEP_FOLLOWING"]: self.unfollow_user(user_id)
RECURSIVE unfollow_unless_kept(_, _, _)
unfollow_unless_kept(ids, keep, api) ==
    IF ids = <<>> THEN <<>>
    ELSE (IF Head(ids) \in keep THEN <<>>
          ELSE TwitterBot_unfollow_user(Head(ids), api[Head(ids)]))
         \o unfollow_unless_kept(Tail(ids), keep, api)

\* bot.auto_unfollow_nonfollowers(), auto_sync left at False; a config file without a
\* USERS_KEEP_FOLLOWING line makes BOT_CONFIG["USERS_KEEP_FOLLOWING"] raise KeyError at
\* the first candidate
TwitterBotAutoUnfollowNonfollowers ==
    /\ Called("TwitterBot.auto_unfollow_nonfollowers")
    /\ LET following == ReadIds(follows_file)
           followers == ReadIds(followers_file)
           not_following_back == SetToList(following \ followers)
           already_followed == Range(not_following_back) \cup ReadIds(already_followed_file)
       IN  /\ start' = [start EXCEPT !.read =
                            [followers |-> followers, following |-> following,
                             dnf |-> ReadIds(already_followed_file),
                             not_following_back |-> not_following_back]]
           /\ already_followed_file' = WriteIds(SetToList(already_followed))
           /\ IF not_following_back # <<>> /\ "USERS_KEEP_FOLLOWING" \notin DOMAIN BOT_CONFIG
              THEN /\ calls' = <<>>
                   /\ pc' = "crashed"
              ELSE /\ \E api \in [Range(not_following_back) -> ApiOutcomes] :
                        calls' = IF not_following_back = <<>> THEN <<>>
                                 ELSE unfollow_unless_kept(not_following_back,
                                          BOT_CONFIG["USERS_KEEP_FOLLOWING"], api)
                   /\ pc' = "idle"
    /\ UNCHANGED <<followers_file, follows_file, non_following_file, queue, args, requests,
                   looked, decided, ops, chunkVars, configVars, report>>

NextConfig ==
    \/ BotSetup
    \/ TwitterBotFollowUser
    \/ TwitterBotAutoUnfollowNonfollowers

SpecConfig == InitConfig /\ [][NextConfig]_vars

----------------------------------------------------------------------------
(* Properties of the config-file variant *)

\* a required parameter has no line in the config file, or has one with no value (the last
\* line of a parameter is the one that counts)
RequiredMissing ==
    \E k \in DOMAIN required_parameters :
        LET own == {j \in DOMAIN start.config_file.lines :
                        start.config_file.lines[j][1] = required_parameters[k]}
        IN  \/ own = {}
            \/ start.config_file.lines[CHOOSE j \in own : \A m \in own : m <= j][2] = ""

\* every line of the config file has its colon
WellFormed == \A j \in DOMAIN start.config_file.lines : Len(start.config_file.lines[j]) >= 2

\* bot_setup has run
SetUp == workflow = "bot_setup"

FirstBadLine ==
    CHOOSE j \in DOMAIN start.config_file.lines :
        /\ Len(start.config_file.lines[j]) < 2
        /\ \A m \in 1..(j - 1) : Len(start.config_file.lines[m]) >= 2

C26_BelowThresholdSkipped ==
    workflow = "TwitterBot.follow_user" =>
        \A k \in DOMAIN decided :
            LET u == decided[k].user
                created == \E c \in DOMAIN decided[k].calls :
                               decided[k].calls[c].op = "friendships.create"
            IN  /\ u.followers_count < args.n_followers =>
                     (decided[k].decision = "SKIP_LOW_FOLLOWERS" /\ ~created)
                /\ (~u.protected /\ u.followers_count >= args.n_followers) => created

\* the ids USERS_KEEP_FOLLOWING lists
KeepFollowing ==
    IF "USERS_KEEP_FOLLOWING" \in DOMAIN BOT_CONFIG THEN BOT_CONFIG["USERS_KEEP_FOLLOWING"]
    ELSE {}

\* the friendships.destroy calls of the run for an id
Destroys(id) == {k \in DOMAIN calls : calls[k].op = "friendships.destroy" /\ calls[k].id = id}

\* C29 as stated: auto_unfollow_nonfollowers of the config-file variant issues no
\* friendships.destroy for an id of USERS_KEEP_FOLLOWING and exactly one for every other id
\* of following \ followers.
C29_KeptNeverUnfollowed ==
    workflow = "TwitterBot.auto_unfollow_nonfollowers" =>
        /\ \A id \in KeepFollowing : Destroys(id) = {}
        /\ \A id \in (start.read.following \ start.read.followers) \ KeepFollowing :
             Cardinality(Destroys(id)) = 1

====
